---- MODULE Spec2Model ----
(***************************************************************************)
(* Model of the journaled trie overlay of crates/runtime/src/journal.rs:   *)
(* JournaledTrie over a TrieStorage, with the storage-key derivation.      *)
(* Journal indices are zero-based as in the source; the event at source    *)
(* index i is journal[i + 1].  Option<T> is modelled as a sequence of      *)
(* length at most one: no value is the empty sequence, Some(x) is <<x>>.   *)
(***************************************************************************)
EXTENDS Integers, Sequences, FiniteSets, TLC

\* ------------------------------------------------------------------ bounds
\* journal length, log buffer length and tracked checkpoints of Spec
MaxJournalA == 2
MaxLogsA == 1
MaxCheckpointsA == 1
\* the same for SpecLogs and SpecNested
MaxJournal == 3
MaxLogs == 2
MaxCheckpoints == 2

\* ------------------------------------------------------------ input sets
DOMAIN_SEP == 0
Addresses == {1, 2}
Slots == {<<0, 1>>, <<1, 0>>}
Words == {1, 2}
RawKeys == {0}
UpdateInputs == {<< <<1, 2>>, 0 >>, << <<2>>, 1 >>}
NestedInputs == {<< <<1, 2>>, 0 >>}
LogInputs == {[address |-> 1, topics |-> <<>>, data |-> 1],
              [address |-> 1, topics |-> <<7>>, data |-> 2]}
TrieErrors == {-1, -2}
OneTrieError == {-1}

None == <<>>
Some(x) == <<x>>

\* ------------------------------------------------- Poseidon / key derivation
\* Two-to-one hash with a domain separator, modelled as an injective pairing.
Pair(x, y) == ((x + y) * (x + y + 1)) \div 2 + y
PoseidonHash(x, y, d) == Pair(Pair(x, y), d)

\* Fr::from_bytes on a buffer whose high bytes are zero: the low bytes as a
\* little-endian number, always below the modulus.
FrFromBytes(n) == n

\* the scalar field's modulus has FrBits bits: a buffer with only its low n
\* bytes set decodes when 8 * n < FrBits, and may be rejected otherwise
FrBits == 254
HalfBytes == 16
AddressBytes == 20
FrDecodes(n) == 8 * n < FrBits

\* val is the pair of the two 16-byte halves of a 32-byte word
compress_value(val) == PoseidonHash(FrFromBytes(val[1]), FrFromBytes(val[2]), DOMAIN_SEP)

\* a derivation that leaves the address out of the hash
storage_key_of_slot(address, slot) ==
    PoseidonHash(compress_value(slot), compress_value(slot), DOMAIN_SEP)

storage_key(address, slot) ==
    PoseidonHash(FrFromBytes(address), compress_value(slot), DOMAIN_SEP)

\* the unwraps of storage_key and compress_value
storage_key_panics(address, slot) == ~FrDecodes(AddressBytes) \/ ~FrDecodes(HalfBytes)

StorageSlots == Addresses \X Slots
StorageKeys == {storage_key(p[1], p[2]) : p \in StorageSlots}
Keys == RawKeys \cup StorageKeys

\* ------------------------------------------------------------- TrieStorage
EmptyTrie == [k \in Keys |-> None]
TrieGet(t, k) == IF t[k] = None THEN None ELSE Some(t[k][1].value)
TrieUpdate(t, k, flags, value) == [t EXCEPT ![k] = Some([value |-> value, flags |-> flags])]
TrieRemove(t, k) == [t EXCEPT ![k] = None]
TrieRoot(t) == {<<k, t[k][1].value, t[k][1].flags>> : k \in {x \in Keys : t[x] # None}}

\* ------------------------------------------------------------ JournalEvent
ItemChanged(k, v, f, p) == [type |-> "ItemChanged", key |-> k, value |-> v, flags |-> f, prev_state |-> p]
ItemRemoved(k, p) == [type |-> "ItemRemoved", key |-> k, value |-> <<>>, flags |-> 0, prev_state |-> p]
EventKey(e) == e.key
EventValue(e) == IF e.type = "ItemChanged" THEN Some(<<e.value, e.flags>>) ELSE None
EventPrevState(e) == e.prev_state

\* ------------------------------------------------------ HashMap operations
EmptyMap == [k \in {} |-> 0]
MapGet(m, k) == IF k \in DOMAIN m THEN Some(m[k]) ELSE None
MapInsert(m, k, v) == [x \in (DOMAIN m) \cup {k} |-> IF x = k THEN v ELSE m[x]]
MapRemove(m, k) == [x \in (DOMAIN m) \ {k} |-> m[x]]

VARIABLES storage, state, logs, journal, root, committed,
          fatal, last, cps, emitted, direct, expect, stale

overlay == <<state, logs, journal, root, committed>>
ghost == <<cps, emitted, direct, expect, stale>>
vars == <<storage, state, logs, journal, root, committed, fatal, last,
          cps, emitted, direct, expect, stale>>

\* the last operation, its arguments and what it returned; rep tells that a
\* read repeats the read made just before it
Op(op, arg, res) == [op |-> op, arg |-> arg, res |-> res, rep |-> FALSE]
Read(op, arg, res) == [op |-> op, arg |-> arg, res |-> res,
                       rep |-> (last.op = op /\ last.arg = arg)]

\* JournaledTrie::new over an empty trie
New ==
    /\ storage = EmptyTrie
    /\ state = EmptyMap
    /\ logs = <<>>
    /\ journal = <<>>
    /\ root = TrieRoot(EmptyTrie)
    /\ committed = 0
    /\ fatal = FALSE
    /\ last = Op("new", None, None)
    /\ cps = <<>>
    /\ emitted = <<>>
    /\ direct = EmptyTrie
    /\ expect = [p \in StorageSlots |-> None]

\* stale: the checkpoints the caller still holds although a commit, a failed
\* commit or a rollback made them leave cps, each with what made it leave;
\* keep tells whether the caller holds on to such checkpoints at all
Init == New /\ stale = [keep |-> FALSE, set |-> {}]
InitStale == New /\ stale = [keep |-> TRUE, set |-> {}]

\* the records of cps that are not in the sequence left, marked with the reason
Left(left, by) ==
    LET gone == {cps[i].cp : i \in DOMAIN cps} \ {left[i].cp : i \in DOMAIN left}
    IN  IF stale.keep
        THEN [stale EXCEPT !.set = @ \cup {[cp |-> c, by |-> by] : c \in gone}]
        ELSE stale

\* ------------------------------------------------------- JournaledTrie::get
\* journal.get(index).unwrap() panics when the index is outside the journal
get_panics(key) == key \in DOMAIN state /\ state[key] >= Len(journal)

\* a get that asks the trie before the overlay
get_trie_first(key) ==
    LET t == TrieGet(storage, key)
    IN  IF t # None THEN Some(<<t[1], TRUE>>)
        ELSE IF MapGet(state, key) # None
             THEN LET v == EventValue(journal[state[key] + 1])
                  IN  IF v = None THEN None ELSE Some(<<v[1][1], FALSE>>)
             ELSE None

get(key) ==
    IF MapGet(state, key) # None
    THEN LET v == EventValue(journal[state[key] + 1])
         IN  IF v = None THEN None ELSE Some(<<v[1][1], FALSE>>)
    ELSE LET t == TrieGet(storage, key)
         IN  IF t = None THEN None ELSE Some(<<t[1], TRUE>>)

\* the result of get for every key, and the logs buffer: the observable state
Observe == [k \in Keys |-> get(k)]

\* ---------------------------------------------------- ghost bookkeeping
\* The checkpoints the caller holds that are still nested inside the overlay
\* (the journal was never cut below their position and no commit ran since),
\* oldest first, each with the observable state at the moment it was captured.
CpRecord(cp) == [cp |-> cp, obs |-> Observe, lg |-> logs, em |-> Len(emitted),
                 rt |-> TrieRoot(storage)]
Track(cap, rec) == IF Len(cps) < cap THEN Append(cps, rec) ELSE cps

SlotsOfKey(key) == {p \in StorageSlots : storage_key(p[1], p[2]) = key}
ExpectAfterWrite(key) == [p \in StorageSlots |-> IF p \in SlotsOfKey(key) THEN None ELSE expect[p]]
ExpectDropWarm == [p \in StorageSlots |->
                     IF expect[p] # None /\ expect[p][1][2] = FALSE THEN None ELSE expect[p]]
ExpectFlushed == [p \in StorageSlots |->
                     IF expect[p] # None THEN Some(<<expect[p][1][1], TRUE>>) ELSE None]

Panic(op, arg) ==
    /\ fatal' = TRUE
    /\ last' = Op("panic", op, arg)
    /\ UNCHANGED <<storage, state, logs, journal, root, committed>>
    /\ UNCHANGED ghost

\* ------------------------------------------------ JournaledTrie::checkpoint
checkpoint_value == <<Len(journal), 0>>

Checkpoint(cap) ==
    /\ ~fatal
    /\ last' = Op("checkpoint", None, checkpoint_value)
    /\ cps' = Track(cap, CpRecord(checkpoint_value))
    /\ UNCHANGED <<storage, state, logs, journal, root, committed, fatal>>
    /\ UNCHANGED <<emitted, direct, expect, stale>>

Get(key) ==
    /\ ~fatal
    /\ IF get_panics(key)
       THEN Panic("get", key)
       ELSE /\ last' = Read("get", key, get(key))
            /\ UNCHANGED <<storage, state, logs, journal, root, committed, fatal>>
            /\ UNCHANGED ghost

\* --------------------------------------------------- JournaledTrie::update
update_journal(key, value, flags) ==
    Append(journal, ItemChanged(key, value, flags, MapGet(state, key)))
\* an index that keeps pointing at the first event of a key
update_state_keep_first(key) ==
    IF key \in DOMAIN state THEN state ELSE MapInsert(state, key, Len(journal))

update_state(key) == MapInsert(state, key, Len(journal))

\* an update that also writes through to the trie
Update_write_through(key, value, flags) ==
    /\ ~fatal
    /\ journal' = update_journal(key, value, flags)
    /\ state' = update_state(key)
    /\ storage' = TrieUpdate(storage, key, flags, value)
    /\ last' = Op("update", <<key, value, flags>>, None)
    /\ expect' = ExpectAfterWrite(key)
    /\ UNCHANGED <<logs, root, committed, fatal>>
    /\ UNCHANGED <<cps, emitted, direct, stale>>

Update(key, value, flags) ==
    /\ ~fatal
    /\ journal' = update_journal(key, value, flags)
    /\ state' = update_state(key)
    /\ last' = Op("update", <<key, value, flags>>, None)
    /\ expect' = ExpectAfterWrite(key)
    /\ UNCHANGED <<storage, logs, root, committed, fatal>>
    /\ UNCHANGED <<cps, emitted, direct, stale>>

\* ---------------------------------------------------- JournaledTrie::store
Store(address, slot, value) ==
    LET key == storage_key(address, slot) IN
    /\ ~fatal
    /\ IF storage_key_panics(address, slot)
       THEN Panic("storage_key", <<address, slot>>)
       ELSE /\ journal' = update_journal(key, <<value>>, 1)
            /\ state' = update_state(key)
            /\ last' = Op("store", <<address, slot, value>>, None)
            /\ expect' = [p \in StorageSlots |->
                            IF p = <<address, slot>> THEN Some(<<value, FALSE>>)
                            ELSE ExpectAfterWrite(key)[p]]
            /\ UNCHANGED <<storage, logs, root, committed, fatal>>
            /\ UNCHANGED <<cps, emitted, direct, stale>>

\* ----------------------------------------------------- JournaledTrie::load
\* a load without the assertion on the length of the value
load_unchecked(address, slot) == get_panics(storage_key(address, slot))

load_panics(address, slot) ==
    LET key == storage_key(address, slot) IN
    \/ get_panics(key)
    \/ get(key) # None /\ Len(get(key)[1][1]) # 1

load(address, slot) ==
    LET r == get(storage_key(address, slot))
    IN  IF r = None THEN None ELSE Some(<<r[1][1][1], r[1][2]>>)

Load(address, slot) ==
    /\ ~fatal
    /\ IF storage_key_panics(address, slot)
       THEN Panic("storage_key", <<address, slot>>)
       ELSE IF load_panics(address, slot)
       THEN Panic("load", <<address, slot>>)
       ELSE /\ last' = Read("load", <<address, slot>>, load(address, slot))
            /\ UNCHANGED <<storage, state, logs, journal, root, committed, fatal>>
            /\ UNCHANGED ghost

\* --------------------------------------------------- JournaledTrie::remove
Remove(key) ==
    /\ ~fatal
    /\ journal' = Append(journal, ItemRemoved(key, MapGet(state, key)))
    /\ state' = MapInsert(state, key, Len(journal))
    /\ last' = Op("remove", key, None)
    /\ expect' = ExpectAfterWrite(key)
    /\ UNCHANGED <<storage, logs, root, committed, fatal>>
    /\ UNCHANGED <<cps, emitted, direct, stale>>

\* --------------------------------------------- JournaledTrie::compute_root
compute_root == TrieRoot(storage)

ComputeRoot ==
    /\ ~fatal
    /\ last' = Op("compute_root", None, compute_root)
    /\ UNCHANGED <<storage, state, logs, journal, root, committed, fatal>>
    /\ UNCHANGED ghost

\* ------------------------------------------------- JournaledTrie::emit_log
\* an emit_log that drops the log
EmitLog_dropped(log) ==
    /\ ~fatal
    /\ last' = Op("emit_log", log, None)
    /\ UNCHANGED <<storage, state, logs, journal, root, committed, fatal>>
    /\ UNCHANGED ghost

EmitLog(log) ==
    /\ ~fatal
    /\ logs' = Append(logs, log)
    /\ emitted' = Append(emitted, log)
    /\ last' = Op("emit_log", log, None)
    /\ UNCHANGED <<storage, state, journal, root, committed, fatal>>
    /\ UNCHANGED <<cps, direct, expect, stale>>

\* --------------------------------------------------- JournaledTrie::commit
\* .skip(committed).map(|v| (*v.key(), v.value())).collect::<HashMap<_, _>>():
\* events are inserted in journal order, a later insert replaces an earlier one
\* a coalescing that keeps the first event of a key
RECURSIVE collect_keep_first(_, _, _)
collect_keep_first(j, m, i) ==
    IF i > Len(j) THEN m
    ELSE collect_keep_first(j, IF EventKey(j[i]) \in DOMAIN m THEN m
                               ELSE MapInsert(m, EventKey(j[i]), EventValue(j[i])), i + 1)

RECURSIVE collect(_, _, _)
collect(j, m, i) ==
    IF i > Len(j) THEN m
    ELSE collect(j, MapInsert(m, EventKey(j[i]), EventValue(j[i])), i + 1)

\* a flush that skips one event too many
commit_writes_skip_one == collect(journal, EmptyMap, committed + 2)

commit_writes == collect(journal, EmptyMap, committed + 1)

\* one iteration of the flush loop
apply_write(t, key, value) ==
    IF value # None THEN TrieUpdate(t, key, value[1][2], value[1][1])
    ELSE TrieRemove(t, key)

\* a loop over the journal's events instead of the coalesced map
flush_calls_per_event(m, ks) ==
    LET todo == SelectSeq(SubSeq(journal, committed + 1, Len(journal)),
                          LAMBDA e : EventKey(e) \in ks)
    IN  [i \in DOMAIN todo |-> [key |-> EventKey(todo[i]), value |-> EventValue(todo[i])]]

\* the calls the flush loop makes to the trie for the keys ks of the coalesced
\* map m, in the map's own order: one call for each key
RECURSIVE flush_calls(_, _)
flush_calls(m, ks) ==
    IF ks = {} THEN <<>>
    ELSE LET k == CHOOSE x \in ks : TRUE
         IN  <<[key |-> k, value |-> m[k]]>> \o flush_calls(m, ks \ {k})

RECURSIVE apply_calls(_, _, _)
apply_calls(t, calls, i) ==
    IF i > Len(calls) THEN t
    ELSE apply_calls(apply_write(t, calls[i].key, calls[i].value), calls, i + 1)

\* the trie after the writes of the keys ks of the coalesced map m
flush(t, m, ks) == apply_calls(t, flush_calls(m, ks), 1)

\* every event applied to a trie directly, one by one in journal order
RECURSIVE ApplyEvents(_, _, _)
ApplyEvents(t, j, i) ==
    IF i > Len(j) THEN t
    ELSE ApplyEvents(apply_write(t, EventKey(j[i]), EventValue(j[i])), j, i + 1)

\* the number of events to flush and of the writes they coalesce into
commit_size == <<Len(journal) - committed, Cardinality(DOMAIN commit_writes)>>

\* a guard that lets a commit through when only logs are pending
nothing_to_commit_but_logs == committed >= Len(journal) /\ logs = <<>>

nothing_to_commit == committed >= Len(journal)

\* a take that leaves the logs in the buffer
logs_after_take_kept == logs

\* take(&mut self.logs) leaves an empty buffer behind
logs_after_take == <<>>

\* an error path that answers one code for every trie error
commit_error_generic(e) == -1

\* `?` hands the trie's error to the caller as it is
commit_error(e) == e

\* errors: the error codes the trie may answer a write with.  The result kept
\* in last is <<"Ok", root, logs, calls>> or <<"Err", error, calls, answer>>:
\* calls are the writes the trie accepted, answer is what the trie answered
\* to the write it refused.
\* the logs buffer of a commit that took the logs before the flush
logs_after_error_taken == <<>>

\* the logs buffer when a write of the flush returns an error: take comes
\* after the flush
logs_after_error == logs

Commit(errors) ==
    /\ ~fatal
    /\ IF nothing_to_commit
       THEN Panic("commit", None)
       ELSE /\ fatal' = FALSE
            /\ cps' = <<>>
            /\ \E done \in SUBSET DOMAIN commit_writes :
                 /\ storage' = flush(storage, commit_writes, done)
                 /\ IF done = DOMAIN commit_writes
                    THEN /\ journal' = <<>>
                         /\ state' = EmptyMap
                         /\ logs' = logs_after_take
                         /\ committed' = 0
                         /\ root' = TrieRoot(storage')
                         /\ last' = Op("commit", commit_size,
                                       <<"Ok", root', logs, flush_calls(commit_writes, done),
                                         storage # direct>>)
                         /\ emitted' = <<>>
                         /\ direct' = ApplyEvents(direct, journal, committed + 1)
                         /\ expect' = ExpectFlushed
                         /\ stale' = Left(<<>>, "commit")
                    ELSE \* a write outside done returned an error: `?` leaves commit
                         /\ \E e \in errors :
                              last' = Op("commit", commit_size,
                                         <<"Err", commit_error(e),
                                           flush_calls(commit_writes, done), e>>)
                         /\ logs' = logs_after_error
                         /\ UNCHANGED <<journal, state, committed, root, emitted>>
                         \* the direct trie stays at the last successful commit,
                         \* except where stale checkpoints are kept: there it
                         \* follows the trie and no claim reads it
                         /\ direct' = IF stale.keep THEN storage' ELSE direct
                         /\ expect' = ExpectDropWarm
                         /\ stale' = Left(<<>>, "failed commit")

\* ------------------------------------------------- JournaledTrie::rollback
\* .iter().rev().take(n).for_each(..): the last n events, newest first
\* a rollback that drops the key of every undone event from the index
RECURSIVE rollback_state_forget(_, _, _, _)
rollback_state_forget(j, st, i, n) ==
    IF n = 0 THEN st
    ELSE rollback_state_forget(j, MapRemove(st, EventKey(j[i])), i - 1, n - 1)

RECURSIVE rollback_state(_, _, _, _)
rollback_state(j, st, i, n) ==
    IF n = 0 THEN st
    ELSE LET v == j[i]
             st1 == IF EventPrevState(v) # None
                    THEN MapInsert(st, EventKey(v), EventPrevState(v)[1])
                    ELSE MapRemove(st, EventKey(v))
         IN  rollback_state(j, st1, i - 1, n - 1)

Min(a, b) == IF a < b THEN a ELSE b

\* journal.len() - checkpoint.state() on usize; when the checkpoint lies beyond
\* the journal the wrapped difference exceeds journal.len() and take() yields
\* every event
take_count(j, cp) == IF cp[1] <= Len(j) THEN Len(j) - cp[1] ELSE Len(j)

\* a truncation that cuts one event too many
rollback_journal_cut_more(j, cp) == SubSeq(j, 1, Min(cp[1], Len(j)) - 1)

rollback_journal(j, cp) == SubSeq(j, 1, Min(cp[1], Len(j)))
rollback_index(j, st, cp) == rollback_state(j, st, Len(j), take_count(j, cp))
\* a rollback that leaves the logs buffer as it is
rollback_logs_kept(lg, cp) == lg

rollback_logs(lg, cp) == SubSeq(lg, 1, Min(cp[2], Len(lg)))

\* a checkpoint at c stays nested inside the overlay after a rollback to cp
Covers(cp, c) == c[1] <= cp[1] /\ c[2] <= cp[2]
Matching(cp) == {i \in DOMAIN cps : cps[i].cp = cp}
Innermost(cp) == CHOOSE i \in Matching(cp) : \A x \in Matching(cp) : x <= i

Rollback(cp) ==
    /\ ~fatal
    /\ IF cp[1] < committed
       THEN Panic("rollback", cp)
       ELSE \/ /\ cp[1] > Len(journal)      \* subtraction overflow, checked build
               /\ Panic("rollback", cp)
            \/ /\ state' = rollback_index(journal, state, cp)
               /\ journal' = rollback_journal(journal, cp)
               /\ logs' = rollback_logs(logs, cp)
               /\ cps' = IF cp[1] > Len(journal) THEN <<>>
                         ELSE SelectSeq(cps, LAMBDA c : Covers(cp, c.cp))
               /\ last' = Op("rollback", cp, <<take_count(journal, cp), Len(cps) - Len(cps')>>)
               /\ emitted' = IF Matching(cp) # {}
                             THEN SubSeq(emitted, 1, Min(cps[Innermost(cp)].em, Len(emitted)))
                             ELSE logs'
               /\ expect' = ExpectDropWarm
               /\ stale' = Left(cps', "rollback")
               /\ UNCHANGED <<storage, root, committed, fatal, direct>>

\* ------------------------------------------------------- specifications
\* Spec: reads, writes, removals and commits over a raw key and the key of one
\* storage slot; the trie accepts every write; rollbacks go to checkpoints
\* still nested in the overlay.
KeysA == RawKeys \cup {storage_key(1, <<0, 1>>)}

Next ==
    \/ Checkpoint(MaxCheckpointsA)
    \/ \E key \in KeysA : Get(key)
    \/ \E key \in KeysA, u \in UpdateInputs :
         Len(journal) < MaxJournalA /\ Update(key, u[1], u[2])
    \/ \E key \in KeysA : Len(journal) < MaxJournalA /\ Remove(key)
    \/ ComputeRoot
    \/ Commit({})
    \/ \E i \in DOMAIN cps : Rollback(cps[i].cp)

Spec == Init /\ [][Next]_vars

\* SpecSlot: every operation of the overlay, over a raw key and one storage slot
SlotKey == storage_key(1, <<0, 1>>)

NextSlot ==
    \/ Checkpoint(MaxCheckpointsA)
    \/ \E key \in RawKeys : Get(key)
    \/ \E key \in RawKeys, u \in NestedInputs :
         Len(journal) < MaxJournalA /\ Update(key, u[1], u[2])
    \/ Len(journal) < MaxJournalA /\ Store(1, <<0, 1>>, 1)
    \/ Load(1, <<0, 1>>)
    \/ Len(journal) < MaxJournalA /\ Remove(SlotKey)
    \/ ComputeRoot
    \/ Len(emitted) < MaxLogsA /\ EmitLog([address |-> 1, topics |-> <<>>, data |-> 1])
    \/ Commit({})
    \/ \E i \in DOMAIN cps : Rollback(cps[i].cp)

SpecSlot == Init /\ [][NextSlot]_vars

\* SpecStore: stores, loads and removals of one storage slot under checkpoints,
\* rollbacks and commits
NextStore ==
    \/ Checkpoint(MaxCheckpointsA)
    \/ \E w \in Words : Len(journal) < MaxJournalA /\ Store(1, <<0, 1>>, w)
    \/ Load(1, <<0, 1>>)
    \/ Len(journal) < MaxJournalA /\ Remove(SlotKey)
    \/ Commit({})
    \/ \E i \in DOMAIN cps : Rollback(cps[i].cp)

SpecStore == Init /\ [][NextStore]_vars

\* SpecLogs: the log buffer under checkpoints, rollbacks and commits
NextLogs ==
    \/ Checkpoint(MaxCheckpoints)
    \/ \E key \in RawKeys : Get(key)
    \/ \E key \in RawKeys, u \in NestedInputs :
         Len(journal) < MaxJournal /\ Update(key, u[1], u[2])
    \/ \E log \in LogInputs : Len(emitted) < MaxLogs /\ EmitLog(log)
    \/ Commit({})
    \/ \E i \in DOMAIN cps : Rollback(cps[i].cp)

SpecLogs == Init /\ [][NextLogs]_vars

\* SpecNested: nested checkpoints over two keys; what get returns for each
\* key is read off the state with the operator get
NextNested ==
    \/ Checkpoint(MaxCheckpoints)
    \/ \E key \in KeysA, u \in NestedInputs :
         Len(journal) < MaxJournal /\ Update(key, u[1], u[2])
    \/ \E key \in KeysA : Len(journal) < MaxJournal /\ Remove(key)
    \/ Commit({})
    \/ \E i \in DOMAIN cps : Rollback(cps[i].cp)

SpecNested == Init /\ [][NextNested]_vars

\* SpecStale: the caller holds a bounded number of checkpoints, keeps them
\* when a commit, a failed commit or a rollback leaves them behind, and rolls
\* back to any of them; the trie may refuse a write of a commit
NextStale ==
    \/ Len(cps) + Cardinality(stale.set) < MaxCheckpointsA /\ Checkpoint(MaxCheckpointsA)
    \/ \E key \in RawKeys, u \in NestedInputs :
         Len(journal) < MaxJournalA /\ Update(key, u[1], u[2])
    \/ Len(journal) < MaxJournalA /\ Store(1, <<0, 1>>, 1)
    \/ \E key \in RawKeys : Len(journal) < MaxJournalA /\ Remove(key)
    \/ Commit(OneTrieError)
    \/ \E i \in DOMAIN cps : Rollback(cps[i].cp)
    \/ \E s \in stale.set : Rollback(s.cp)

SpecStale == InitStale /\ [][NextStale]_vars

\* SpecFail: commits during which the trie may refuse a write, with writes
\* and logs pending
NextFail ==
    \/ \E key \in KeysA, u \in NestedInputs :
         Len(journal) < MaxJournalA /\ Update(key, u[1], u[2])
    \/ \E key \in KeysA : Len(journal) < MaxJournalA /\ Remove(key)
    \/ Len(emitted) < MaxLogsA /\ EmitLog([address |-> 1, topics |-> <<>>, data |-> 1])
    \/ Commit(TrieErrors)

SpecFail == Init /\ [][NextFail]_vars

\* ------------------------------------------------------------ _evm_create
\* revm's MAX_CODE_SIZE (0x6000) and the byte that deployed code may not
\* start with
MAX_CODE_SIZE == 24576
EF == 239

\* the interpreter's output, by its first byte and its length
Outputs == {[first |-> 0, len |-> 0], [first |-> 0, len |-> 1], [first |-> EF, len |-> 1],
            [first |-> 0, len |-> MAX_CODE_SIZE + 1]}

\* is_static, the result of Account::create_account, whether a write reached
\* the journal before the handler looked at the result, and the interpreter's
\* result and output
CreateInputs == [static : BOOLEAN, account_ok : BOOLEAN, staged : BOOLEAN,
                 result_ok : BOOLEAN, output : Outputs]

CallerKey == CHOOSE k \in RawKeys : TRUE
CalleeKey == SlotKey

\* JournaledTrie::update on an overlay given as a record
journal_update(ov, key, value, flags) ==
    [journal |-> Append(ov.journal, ItemChanged(key, value, flags, MapGet(ov.state, key))),
     state |-> MapInsert(ov.state, key, Len(ov.journal))]

\* the exit code of the checks that follow the interpreter's run, in order
create_exit_code(in) ==
    IF ~in.result_ok THEN "EvmError"
    ELSE IF in.output.len # 0 /\ in.output.first = EF THEN "CreateContractStartingWithEF"
    ELSE IF in.output.len > MAX_CODE_SIZE THEN "ContractSizeLimit"
    ELSE "Ok"

EvmCreate(in) ==
    LET checkpoint == checkpoint_value
        ov0 == [journal |-> journal, state |-> state]
        \* writes of create_account and of the interpreter
        ov1 == IF in.staged THEN journal_update(ov0, CalleeKey, <<1, 2>>, 0) ELSE ov0
        \* write_account and update_bytecode
        ov2 == journal_update(journal_update(ov1, CallerKey, <<1, 2>>, 0),
                              CalleeKey, <<1, 2>>, 0)
        writes == collect(ov2.journal, EmptyMap, committed + 1)
    IN
    /\ ~fatal
    /\ IF in.static
       THEN /\ last' = Op("_evm_create", in, [exit_code |-> "WriteProtection", calls |-> <<>>])
            /\ UNCHANGED <<storage, state, logs, journal, root, committed, fatal>>
            /\ UNCHANGED ghost
       ELSE IF ~in.account_ok
       THEN \* return without a call on the account manager
            /\ journal' = ov1.journal
            /\ state' = ov1.state
            /\ last' = Op("_evm_create", in,
                          [exit_code |-> "CreateError",
                           calls |-> << <<"checkpoint", checkpoint>> >>])
            /\ UNCHANGED <<storage, logs, root, committed, fatal>>
            /\ UNCHANGED ghost
       ELSE IF create_exit_code(in) # "Ok"
       THEN /\ journal' = rollback_journal(ov1.journal, checkpoint)
            /\ state' = rollback_index(ov1.journal, ov1.state, checkpoint)
            /\ logs' = rollback_logs(logs, checkpoint)
            /\ last' = Op("_evm_create", in,
                          [exit_code |-> create_exit_code(in),
                           calls |-> << <<"checkpoint", checkpoint>>,
                                        <<"rollback", checkpoint>> >>])
            /\ UNCHANGED <<storage, root, committed, fatal>>
            /\ UNCHANGED ghost
       ELSE /\ storage' = flush(storage, writes, DOMAIN writes)
            /\ journal' = <<>>
            /\ state' = EmptyMap
            /\ logs' = logs_after_take
            /\ committed' = 0
            /\ root' = TrieRoot(storage')
            /\ last' = Op("_evm_create", in,
                          [exit_code |-> "Ok",
                           calls |-> << <<"checkpoint", checkpoint>>, <<"commit">> >>])
            /\ cps' = <<>>
            /\ emitted' = <<>>
            /\ direct' = ApplyEvents(direct, ov2.journal, committed + 1)
            /\ expect' = ExpectFlushed
            /\ stale' = Left(<<>>, "commit")
            /\ UNCHANGED fatal

\* SpecCreate: _evm_create called inside a transaction that writes and commits
NextCreate ==
    \/ \E key \in KeysA, u \in NestedInputs :
         Len(journal) < MaxJournalA /\ Update(key, u[1], u[2])
    \/ \E key \in KeysA : Len(journal) < MaxJournalA /\ Remove(key)
    \/ Commit({})
    \/ \E in \in CreateInputs : Len(journal) < MaxJournalA /\ EvmCreate(in)

SpecCreate == Init /\ [][NextCreate]_vars

\* SpecLoad: one storage slot whose key is written by store, by update with
\* one or two words and by remove, then read back by load
NextLoad ==
    \/ \E u \in UpdateInputs : Len(journal) < MaxJournalA /\ Update(SlotKey, u[1], u[2])
    \/ \E w \in Words : Len(journal) < MaxJournalA /\ Store(1, <<0, 1>>, w)
    \/ Len(journal) < MaxJournalA /\ Remove(SlotKey)
    \/ Load(1, <<0, 1>>)
    \/ Checkpoint(MaxCheckpointsA)
    \/ Commit({})
    \/ \E i \in DOMAIN cps : Rollback(cps[i].cp)

SpecLoad == Init /\ [][NextLoad]_vars

\* SpecKeys: every storage slot of every address written by store, each
\* address with a word of its own, and read back by load
NextKeys ==
    \/ \E p \in StorageSlots :
         Len(journal) < MaxJournalA /\ Store(p[1], p[2], p[1])
    \/ \E p \in StorageSlots : Load(p[1], p[2])
    \/ Len(journal) < MaxJournalA /\ Remove(SlotKey)
    \/ Commit({})

SpecKeys == Init /\ [][NextKeys]_vars

\* ----------------------------------------------------------------- claims
CommitOk(l) == l.op = "commit" /\ l.res[1] = "Ok"

\* the newest journal event for key k, by position and not through the index
EventsOf(j, k) == {i \in 1..Len(j) : j[i].key = k}
Newest(j, k) == CHOOSE i \in EventsOf(j, k) : \A x \in EventsOf(j, k) : x <= i
LastWrite(t, j, k) ==
    IF EventsOf(j, k) = {} THEN t[k]
    ELSE IF j[Newest(j, k)].type = "ItemChanged"
         THEN Some([value |-> j[Newest(j, k)].value, flags |-> j[Newest(j, k)].flags])
         ELSE None

\* C1: a rollback to a checkpoint restores the results of get for every key
\* and the logs buffer to what they were when the checkpoint was captured.
C1_RollbackRestoresObservable ==
    last.op = "rollback" =>
        \A i \in Matching(last.arg) : Observe = cps[i].obs /\ logs = cps[i].lg

\* C2: after a successful commit the trie holds, for every key, the value and
\* flags of the key's last update in the journal, no entry when the last event
\* was a remove, and its previous entry when the journal had no event for it.
C2_LastWriteWins ==
    [][CommitOk(last') => \A k \in Keys : storage'[k] = LastWrite(storage, journal, k)]_vars

C2_Witness ==
    /\ CommitOk(last)
    /\ last.arg[1] > last.arg[2]
    /\ \E k \in Keys : storage[k] # None

\* C3: after every successful commit the overlay's trie and a trie to which
\* the events were applied directly, one by one, hold the same entries and
\* have the same root, which is the root commit returns.
C3_RootMatchesDirectTrie ==
    CommitOk(last) =>
        /\ \A k \in Keys : storage[k] = direct[k]
        /\ compute_root = TrieRoot(direct)
        /\ last.res[2] = TrieRoot(direct)

C3_Witness ==
    /\ CommitOk(last)
    /\ last.arg[1] = 1
    /\ Cardinality({k \in Keys : storage[k] # None}) = 2

\* C4: only commit changes the trie: every other operation leaves each trie
\* entry and the trie root as they were.
C4_OnlyCommitWritesTrie ==
    [][(storage' # storage \/ TrieRoot(storage') # TrieRoot(storage)) => last'.op = "commit"]_vars

C4_Witness ==
    /\ last.op = "rollback"
    /\ last.res[1] >= 1
    /\ storage # EmptyTrie
    /\ compute_root = root

\* C5: a rollback to an outer checkpoint, taken before an inner one that is
\* still nested, gives the journal, the state index and the get results that
\* rolling back to the inner and then to the outer checkpoint gives, and every
\* key reads as it did when the outer checkpoint was captured.
C5_OuterRollbackUndoesInner ==
    [][last'.op = "rollback" =>
          \A i, j \in DOMAIN cps :
              (i < j /\ cps[i].cp = last'.arg) =>
                  LET inner_journal == rollback_journal(journal, cps[j].cp)
                      inner_index == rollback_index(journal, state, cps[j].cp)
                  IN  /\ journal' = rollback_journal(inner_journal, cps[i].cp)
                      /\ state' = rollback_index(inner_journal, inner_index, cps[i].cp)
                      /\ Observe' = cps[i].obs]_vars

C5_Witness ==
    /\ last.op = "rollback"
    /\ last.res = <<2, 1>>
    /\ Len(journal) = 1
    /\ Len(cps) = 1
    /\ \E k \in Keys : storage[k] # None

\* C6: checkpoint returns (journal length, logs length) and changes nothing.
C6_CheckpointIsLengths ==
    [][last'.op = "checkpoint" =>
          /\ last'.res = <<Len(journal), Len(logs)>>
          /\ UNCHANGED <<storage, state, logs, journal, root, committed>>]_vars

\* C7: a successful commit returns, in emission order, the logs emitted since
\* the previous commit that no rollback undid, and empties the logs buffer.
C7_CommitReturnsEmittedLogs ==
    [][CommitOk(last') => last'.res[3] = emitted /\ logs' = <<>>]_vars

\* C8: a read that follows a read of the same key is warm.
C8_SecondTouchIsWarm ==
    (last.op \in {"get", "load"} /\ last.rep /\ last.res # None) => last.res[1][2] = FALSE

\* C9: load after store of w to the same slot returns (w, warm); after a
\* successful commit it returns (w, cold).
C9_StoreLoadRoundTrip ==
    /\ last.op = "load" =>
          (expect[last.arg] = None \/ last.res = expect[last.arg])
    /\ (last.op = "panic" /\ last.arg = "load") => expect[last.res] = None

C9_Witness ==
    /\ last.op = "load"
    /\ expect[last.arg] # None
    /\ last.res[1][2] = TRUE
    /\ last.res[1][1] = 2

\* C10: get answers from the indexed journal event when the state index has
\* the key (none for a removal, the trie is not consulted), from the trie
\* otherwise, and changes no state.
C10_GetReadsOverlayFirst ==
    [][last'.op = "get" =>
          LET k == last'.arg
              r == last'.res
          IN  /\ UNCHANGED <<storage, state, logs, journal, root, committed>>
              /\ IF k \in DOMAIN state
                 THEN /\ journal[state[k] + 1].type = "ItemRemoved" => r = None
                      /\ journal[state[k] + 1].type = "ItemChanged" =>
                            r = Some(<<journal[state[k] + 1].value, FALSE>>)
                 ELSE /\ storage[k] = None => r = None
                      /\ storage[k] # None => r = Some(<<storage[k][1].value, TRUE>>)]_vars

C10_Witness ==
    /\ last.op = "get"
    /\ last.res = None
    /\ last.arg \in DOMAIN state
    /\ storage[last.arg] # None

\* C11: a successful commit makes one write to the trie for each key that has
\* an event in the journal and none for any other key, however many events
\* the key has, and the write carries the key's newest event.
C11_OneWritePerKey ==
    [][CommitOk(last') =>
          LET calls == last'.res[4]
              CallsOf(k) == {i \in DOMAIN calls : calls[i].key = k}
          IN  \A k \in Keys :
                  /\ Cardinality(CallsOf(k)) <= 1
                  /\ EventsOf(journal, k) = {} => CallsOf(k) = {}
                  /\ EventsOf(journal, k) # {} =>
                        \E i \in CallsOf(k) :
                            calls[i].value = EventValue(journal[Newest(journal, k)])]_vars

C11_Witness ==
    /\ CommitOk(last)
    /\ last.arg = <<2, 1>>
    /\ Len(last.res[4]) = 1
    /\ last.res[4][1].value = Some(<<<<2>>, 1>>)

\* C12: right after a successful commit the journal, the state index and the
\* logs buffer are empty and committed is 0.
C12_CommitLeavesEmpty ==
    [][CommitOk(last') =>
          /\ journal' = <<>>
          /\ DOMAIN state' = {}
          /\ logs' = <<>>
          /\ committed' = 0]_vars

C12_Witness ==
    /\ CommitOk(last)
    /\ last.arg[1] = 2
    /\ last.res[3] # <<>>
    /\ journal = <<>> /\ DOMAIN state = {} /\ logs = <<>> /\ committed = 0

\* C13: once two distinct keys are committed, a rollback to a checkpoint taken
\* on the empty journal, after an update made under that checkpoint, leaves
\* exactly 2 entries in the state index.
C13_IndexKeepsCommittedKeys ==
    [][(/\ last'.op = "rollback"
        /\ last'.arg[1] = 0
        /\ Matching(last'.arg) # {}
        /\ Len(journal) >= 1
        /\ Cardinality({k \in Keys : storage[k] # None}) = 2)
       => Cardinality(DOMAIN state') = 2]_vars

RollbackCalled(l, cp) ==
    \/ l.op = "rollback" /\ l.arg = cp
    \/ l.op = "panic" /\ l.arg = "rollback" /\ l.res = cp

\* C15: a rollback to a checkpoint that was captured before the most recent
\* commit is fatal and leaves the journal, the state index and the logs as
\* they are; a rollback that returns was given a checkpoint at or above the
\* committed watermark.
C15_RollbackBelowCommitIsFatal ==
    [][/\ \A s \in stale.set :
            (s.by = "commit" /\ Matching(s.cp) = {} /\ RollbackCalled(last', s.cp)) =>
                (last'.op = "panic" /\ UNCHANGED <<journal, state, logs>>)
       /\ last'.op = "rollback" => last'.arg[1] >= committed]_vars

CommitErr(l) == l.op = "commit" /\ l.res[1] = "Err"

\* C16: a commit during which the trie refuses a write returns the trie's
\* error, makes no write after the refused one, and leaves the journal, the
\* state index, the logs buffer and committed as they were; the trie holds
\* the writes it accepted before and nothing else new.
C16_FailedCommitKeepsOverlay ==
    [][CommitErr(last') =>
          /\ last'.res[2] = last'.res[4]
          /\ Len(last'.res[3]) < last'.arg[2]
          /\ storage' = apply_calls(storage, last'.res[3], 1)
          /\ UNCHANGED <<journal, state, logs, committed>>]_vars

C16_Witness ==
    /\ CommitErr(last)
    /\ last.res[2] = -2
    /\ last.arg[2] = 2
    /\ Len(last.res[3]) = 1
    /\ Len(journal) = 2
    /\ logs # <<>>
    /\ storage # EmptyTrie

\* a step that called commit(), whether it returned or was fatal
CommitCalled(l) == l.op = "commit" \/ (l.op = "panic" /\ l.arg = "commit")

\* C17: a commit called while the journal holds nothing beyond committed is
\* fatal, returns nothing and writes nothing to the trie, also when logs are
\* pending.
C17_NothingToCommitIsFatal ==
    [][(CommitCalled(last') /\ Len(journal) <= committed) =>
          /\ last'.op = "panic"
          /\ fatal'
          /\ UNCHANGED <<storage, root>>]_vars

C17_Witness ==
    /\ last.op = "panic" /\ last.arg = "commit"
    /\ fatal
    /\ journal = <<>>
    /\ logs # <<>>
    /\ storage # EmptyTrie

IsEmpty == journal = <<>> /\ logs = <<>> /\ committed = 0
IsDirty == journal # <<>>
IsPending == journal # <<>> \/ logs # <<>>
Writes == {"update", "remove", "store", "emit_log"}

\* C18 as stated: every state is Empty (journal and logs empty, committed 0)
\* or Dirty (journal non-empty), and update, remove, store and emit_log lead
\* from Empty to Dirty.
C18_EmptyOrDirty_AsStated ==
    [][/\ IsEmpty' \/ IsDirty'
       /\ (IsEmpty /\ last'.op \in Writes) => IsDirty']_vars

\* C18 amended: with Dirty read as journal or logs non-empty, every state is
\* Empty or Dirty, and update, remove, store and emit_log lead from Empty to
\* Dirty.
C18_EmptyOrPending ==
    [][/\ IsEmpty' \/ IsPending'
       /\ (IsEmpty /\ last'.op \in Writes) => IsPending']_vars

C18_Witness ==
    /\ last.op = "emit_log"
    /\ journal = <<>>
    /\ Len(logs) = 1
    /\ committed = 0
    /\ storage # EmptyTrie

\* C19 (J1): every key of the state index points inside the journal, at an
\* event of that key.
C19_IndexPointsIntoJournal ==
    \A k \in DOMAIN state :
        /\ state[k] < Len(journal)
        /\ EventKey(journal[state[k] + 1]) = k

C19_Witness ==
    /\ last.op = "rollback"
    /\ last.res[1] >= 1
    /\ Matching(last.arg) = {}
    /\ \E s \in stale.set : s.cp = last.arg /\ s.by = "failed commit"
    /\ DOMAIN state # {}
    /\ storage # EmptyTrie

\* C20 (J2): the key of every journal event is in the state index, which
\* points at that event or at a later one, also after a rollback to a
\* checkpoint that a rollback or a commit had left behind.
C20_IndexPointsAtLatest ==
    \A i \in DOMAIN journal :
        /\ EventKey(journal[i]) \in DOMAIN state
        /\ state[EventKey(journal[i])] >= i - 1

\* what the overlay currently holds for key k, read off the index, the journal
\* and the trie
Current(k) ==
    IF k \in DOMAIN state
    THEN IF journal[state[k] + 1].type = "ItemRemoved" THEN None
         ELSE Some(<<journal[state[k] + 1].value, FALSE>>)
    ELSE IF storage[k] = None THEN None
         ELSE Some(<<storage[k][1].value, TRUE>>)

\* C21: load returns none when the slot's key currently has no value, the
\* word and the cold bit when its value is one word, and is fatal when the
\* value has another length; store appends an update of one word with flags 1.
C21_LoadOneWordOrFatal ==
    [][/\ last'.op = "load" =>
            LET cur == Current(storage_key(last'.arg[1], last'.arg[2]))
            IN  \/ cur = None /\ last'.res = None
                \/ /\ cur # None
                   /\ Len(cur[1][1]) = 1
                   /\ last'.res = Some(<<cur[1][1][1], cur[1][2]>>)
       /\ (last'.op = "panic" /\ last'.arg = "load") =>
            LET cur == Current(storage_key(last'.res[1], last'.res[2]))
            IN  cur # None /\ Len(cur[1][1]) # 1
       /\ last'.op = "store" =>
            LET key == storage_key(last'.arg[1], last'.arg[2])
            IN  journal' = Append(journal, ItemChanged(key, <<last'.arg[3]>>, 1,
                                                      MapGet(state, key)))]_vars

C21_Witness ==
    /\ last.op = "panic" /\ last.arg = "load"
    /\ SlotKey \notin DOMAIN state
    /\ storage[SlotKey] # None

\* C22: storage_key never fails on an address and a slot, distinct (address,
\* slot) pairs have distinct keys, and a store to one pair leaves what load
\* reads for every other pair unchanged.
C22_DistinctSlotsAreIndependent ==
    [][/\ \A p \in StorageSlots : ~storage_key_panics(p[1], p[2])
       /\ ~(last'.op = "panic" /\ last'.arg = "storage_key")
       /\ \A p, q \in StorageSlots :
            p # q => storage_key(p[1], p[2]) # storage_key(q[1], q[2])
       /\ last'.op = "store" =>
            \A q \in StorageSlots \ {<<last'.arg[1], last'.arg[2]>>} :
               Current(storage_key(q[1], q[2]))' = Current(storage_key(q[1], q[2]))]_vars

C22_Witness ==
    /\ last.op = "store"
    /\ \E q \in StorageSlots :
         /\ q[1] # last.arg[1]
         /\ q[2] = last.arg[2]
         /\ Current(storage_key(q[1], q[2])) # None
    /\ \E q \in StorageSlots :
         /\ q[1] = last.arg[1]
         /\ q[2] # last.arg[2]
         /\ Current(storage_key(q[1], q[2])) # None

\* the journal positions visited by following prev_state links from link
RECURSIVE Visited(_, _, _)
Visited(j, link, fuel) ==
    IF link = None \/ fuel = 0 \/ link[1] + 1 \notin DOMAIN j THEN {}
    ELSE {link[1] + 1} \cup Visited(j, EventPrevState(j[link[1] + 1]), fuel - 1)

EarlierOf(j, i) == {x \in EventsOf(j, EventKey(j[i])) : x < i}

\* C23: the prev_state of every journal event is the index of the nearest
\* earlier event for the same key in the current journal, and none when there
\* is no such event; the links followed from the state index entry of a key
\* visit exactly the journal's events for that key.
C23_PrevStateChain ==
    /\ \A i \in DOMAIN journal :
          IF EarlierOf(journal, i) = {}
          THEN EventPrevState(journal[i]) = None
          ELSE /\ EventPrevState(journal[i]) # None
               /\ EventPrevState(journal[i])[1] + 1 \in EarlierOf(journal, i)
               /\ \A x \in EarlierOf(journal, i) : x <= EventPrevState(journal[i])[1] + 1
    /\ \A k \in Keys :
          Visited(journal, MapGet(state, k), Len(journal)) = EventsOf(journal, k)

\* C24: the cached root is the trie's root in every reachable state, also
\* after a commit that failed once the trie had accepted some of its writes.
C24_CachedRootIsTrieRoot == root = TrieRoot(storage)

CallsOf(l, name) == {i \in DOMAIN l.res.calls : l.res.calls[i][1] = name}

\* C25: a return of _evm_create with a failure exit code after its
\* checkpoint was preceded by a rollback to that checkpoint and by no commit;
\* a return with Ok was preceded by exactly one commit and by no rollback.
C25_CreateRollsBackOrCommits ==
    [][last'.op = "_evm_create" =>
          /\ (last'.res.exit_code # "Ok" /\ CallsOf(last', "checkpoint") # {}) =>
                /\ last'.res.calls[Len(last'.res.calls)] =
                      <<"rollback", last'.res.calls[1][2]>>
                /\ CallsOf(last', "commit") = {}
          /\ last'.res.exit_code = "Ok" =>
                /\ Cardinality(CallsOf(last', "commit")) = 1
                /\ CallsOf(last', "rollback") = {}]_vars

\* C26: a successful commit that follows a failed one leaves the trie, for
\* every key, as the last successful commit left it plus the last write of
\* every key journalled since, and returns every log emitted since that
\* commit.
C26_FailedCommitCanBeRetried ==
    [][CommitOk(last') =>
          /\ \A k \in Keys : storage'[k] = LastWrite(direct, journal, k)
          /\ last'.res[3] = emitted
          /\ logs' = <<>>]_vars

C26_Witness ==
    /\ CommitOk(last)
    /\ last.res[5]
    /\ last.res[3] # <<>>
    /\ Len(last.res[4]) >= 2

====
